---- MODULE Spec2Model ----
(***************************************************************************)
(* ThreadTracer (src/src/threadtracer.c): tt_signin, tt_stamp, tt_report.  *)
(* A call is a sequence of steps of the calling thread, and steps of       *)
(* different threads interleave (sequentially consistent memory). A step   *)
(* holds at most one access that another thread can race with, together    *)
(* with the statements around it that touch only the thread's own          *)
(* variables or data no other thread writes at that time.                  *)
(***************************************************************************)
EXTENDS Integers, Sequences, FiniteSets, TLC

\* ---------------------------------------------------------------- sizes
\* MAXTHREADS and MAXSAMPLES are the array sizes of lines 13-14, scaled down.
MAXTHREADS == 2
MAXSAMPLES == 3
\* 1000000000L of lines 62, 71 and 114: the clock is modelled in whole seconds.
SecondNs == 1

\* Workload bounds.
MaxTime == 1          \* CLOCK_MONOTONIC readings are 0..MaxTime
MaxDelay == 1         \* THREADTRACERSKIP is unset or 0..MaxDelay
MaxReports == 2       \* tt_report calls in one run of SpecReport
MaxRaceReports == 1   \* tt_report calls in one run of SpecRace
MaxRogue == 1         \* tt_stamp calls by threads that hold no slot

NumThreads == MAXTHREADS + 1
Threads == 1..NumThreads
Slots == 0..(MAXTHREADS - 1)
Indices == 0..(MAXSAMPLES - 1)
\* The workloads. Every thread signs in. In Spec the first MAXTHREADS threads
\* stamp and nobody reports; in SpecRace one thread reports while another
\* stamps; in SpecReport one thread reports on buffers that are at rest.
Stampers == 1..MAXTHREADS
Reporter == 1
RaceStamper == 2

Cats == {"c"}
Tags == {"x", "y"}
Phases == {"B", "E"}
StampTags == {"x"}    \* tags the concurrent workload stamps with
ONames == {"a", "b"}  \* output file names handed to tt_report
Streams == ONames \cup {"stderr"}
NoFile == <<[kind |-> "absent"]>>   \* the file does not exist

NULL == "NULL"
Unset == -1           \* getenv("THREADTRACERSKIP") returned NULL
NotCalled == -2       \* the thread's tt_signin has not returned yet

\* ---------------------------------------------------------------- state
VARIABLES
    numthreads,    \* line 17
    walloffset,    \* line 20
    wallcutoff,    \* line 24
    isrecording,   \* line 27
    samples,       \* line 41
    samplecounts,  \* line 44
    threadnames,   \* line 47
    threadids,     \* line 50
    tidx,          \* line 52, one per thread
    pc,            \* the statement each thread is about to execute
    loc,           \* each thread's automatic variables
    ret,           \* the call that returned last: who, what, and why
    signedin,      \* what each thread's tt_signin returned
    now,           \* CLOCK_MONOTONIC
    skipenv,       \* the THREADTRACERSKIP environment variable
    files,         \* the output files by name, and tt_report's lines on stderr
    reports,       \* number of tt_report calls started
    author,        \* history: the thread that wrote samples[slot][index]
    rogue,         \* history: tt_stamp calls by threads without a slot
    oob,           \* history: an access beyond the end of an array happened
    frozen         \* history: recording went from enabled to disabled

vars == <<numthreads, walloffset, wallcutoff, isrecording, samples,
          samplecounts, threadnames, threadids, tidx, pc, loc, ret, signedin,
          now, skipenv, files, reports, author, rogue, oob, frozen>>

\* sample_t, lines 30-38; static storage is zero-initialised.
ZeroSample ==
    [cat |-> NULL, tag |-> NULL, phase |-> NULL, wall_time |-> 0,
     cpu_time |-> 0, num_preemptive_switch |-> 0, num_voluntary_switch |-> 0]

\* The automatic variables of the three functions.
NoLocals ==
    [slot |-> 0, cat |-> NULL, tag |-> NULL, phase |-> NULL,
     wall_nsec |-> 0, cpu_nsec |-> 0, nivcsw |-> 0, nvcsw |-> 0,
     sample |-> 0, oname |-> NULL, total |-> 0, discarded |-> 0,
     t |-> 0, s |-> 0, i |-> 0, f |-> <<>>]

NoResult ==
    [thread |-> 0, op |-> "none", val |-> 0, err |-> "none", discarded |-> 0]

ThreadName(t) == <<"thread", t>>

\* ---------------------------------------------------------------- Init
Init ==
    /\ numthreads = 0
    /\ walloffset = 0
    /\ wallcutoff = 0
    /\ isrecording = 0
    /\ samples = [sl \in Slots |-> [k \in Indices |-> ZeroSample]]
    /\ samplecounts = [sl \in Slots |-> 0]
    /\ threadnames = [sl \in Slots |-> NULL]
    /\ threadids = [sl \in Slots |-> 0]
    /\ tidx = [t \in Threads |-> 0]
    /\ pc = [t \in Threads |-> "idle"]
    /\ loc = [t \in Threads |-> NoLocals]
    /\ ret = NoResult
    /\ signedin = [t \in Threads |-> NotCalled]
    /\ now = 0
    /\ skipenv \in {Unset} \cup (0..MaxDelay)
    /\ files = [o \in Streams |-> IF o = "stderr" THEN <<>> ELSE NoFile]
    /\ reports = 0
    /\ author = [sl \in Slots |-> [k \in Indices |-> 0]]
    /\ rogue = 0
    /\ oob = FALSE
    /\ frozen = FALSE

\* Return from a call: the thread is idle again and its locals are gone.
Return(t, op, val, err, disc) ==
    /\ pc' = [pc EXCEPT ![t] = "idle"]
    /\ loc' = [loc EXCEPT ![t] = NoLocals]
    /\ ret' = [thread |-> t, op |-> op, val |-> val, err |-> err,
               discarded |-> disc]

Goto(t, label) == pc' = [pc EXCEPT ![t] = label]

\* Writing isrecording; frozen remembers an enabled -> disabled transition.
SetRecording(v) ==
    /\ isrecording' = v
    /\ frozen' = (frozen \/ (isrecording = 1 /\ v = 0))

\* The monotonic clock advances.
Tick ==
    /\ now < MaxTime
    /\ now' = now + 1
    /\ UNCHANGED <<numthreads, walloffset, wallcutoff, isrecording, samples,
                   samplecounts, threadnames, threadids, tidx, pc, loc, ret,
                   signedin, skipenv, files, reports, author, rogue, oob,
                   frozen>>

\* ---------------------------------------------------------------- tt_signin
\* Signin57 with the first-registration block run for every slot handed out.
Signin57_InitForEverySlot(t) ==
    /\ pc[t] = "idle"
    /\ signedin[t] = NotCalled
    /\ numthreads' = numthreads + 1
    /\ loc' = [loc EXCEPT ![t].slot = numthreads]
    /\ Goto(t, IF numthreads < MAXTHREADS THEN "signin60" ELSE "signin79")
    /\ UNCHANGED <<walloffset, wallcutoff, isrecording, samples, samplecounts,
                   threadnames, threadids, tidx, ret, signedin, now, skipenv,
                   files, reports, author, rogue, oob, frozen>>

\* Signin57 with a counter that is read and incremented in two accesses: the
\* value read is the one before another thread's increment.
Signin57_TornIncrement(t) ==
    /\ pc[t] = "idle"
    /\ signedin[t] = NotCalled
    /\ numthreads' = numthreads + 1
    /\ \E seen \in {numthreads, IF numthreads > 0 THEN numthreads - 1 ELSE 0} :
           /\ loc' = [loc EXCEPT ![t].slot = seen]
           /\ Goto(t, IF seen = 0 THEN "signin60" ELSE "signin79")
    /\ UNCHANGED <<walloffset, wallcutoff, isrecording, samples, samplecounts,
                   threadnames, threadids, tidx, ret, signedin, now, skipenv,
                   files, reports, author, rogue, oob, frozen>>

\* Signin57 with the first-registration block run by every call.
Signin57_AlwaysInit(t) ==
    /\ pc[t] = "idle"
    /\ signedin[t] = NotCalled
    /\ numthreads' = numthreads + 1
    /\ loc' = [loc EXCEPT ![t].slot = numthreads]
    /\ Goto(t, "signin77")
    /\ UNCHANGED <<walloffset, wallcutoff, isrecording, samples, samplecounts,
                   threadnames, threadids, tidx, ret, signedin, now, skipenv,
                   files, reports, author, rogue, oob, frozen>>

\* line 57: int slot = numthreads++ (one atomic read-modify-write), line 58.
Signin57(t) ==
    /\ pc[t] = "idle"
    /\ signedin[t] = NotCalled
    /\ numthreads' = numthreads + 1
    /\ loc' = [loc EXCEPT ![t].slot = numthreads]
    /\ Goto(t, IF numthreads = 0 THEN "signin60" ELSE "signin79")
    /\ UNCHANGED <<walloffset, wallcutoff, isrecording, samples, samplecounts,
                   threadnames, threadids, tidx, ret, signedin, now, skipenv,
                   files, reports, author, rogue, oob, frozen>>

\* lines 60-62: walloffset = the wall clock reading.
Signin60(t) ==
    /\ pc[t] = "signin60"
    /\ walloffset' = now * SecondNs
    /\ Goto(t, "signin67")
    /\ UNCHANGED <<numthreads, wallcutoff, isrecording, samples, samplecounts,
                   threadnames, threadids, tidx, loc, ret, signedin, now,
                   skipenv, files, reports, author, rogue, oob, frozen>>

\* lines 67-76: wallcutoff = walloffset, and when THREADTRACERSKIP is set
\* wallcutoff += atoi(d) * 1000000000L.
Signin67(t) ==
    /\ pc[t] = "signin67"
    /\ wallcutoff' = IF skipenv = Unset THEN walloffset
                     ELSE walloffset + skipenv * SecondNs
    /\ Goto(t, "signin77")
    /\ UNCHANGED <<numthreads, walloffset, isrecording, samples, samplecounts,
                   threadnames, threadids, tidx, loc, ret, signedin, now,
                   skipenv, files, reports, author, rogue, oob, frozen>>

\* line 77: isrecording = 1.
Signin77(t) ==
    /\ pc[t] = "signin77"
    /\ SetRecording(1)
    /\ Goto(t, "signin79")
    /\ UNCHANGED <<numthreads, walloffset, wallcutoff, samples, samplecounts,
                   threadnames, threadids, tidx, loc, ret, signedin, now,
                   skipenv, files, reports, author, rogue, oob>>

\* Signin79 with a failure path that leaves the counter where it is.
Signin79_Unpinned(t) ==
    /\ pc[t] = "signin79"
    /\ IF loc[t].slot >= MAXTHREADS
       THEN /\ UNCHANGED numthreads
            /\ signedin' = [signedin EXCEPT ![t] = -1]
            /\ Return(t, "signin", -1, "NoCapacity", 0)
            /\ UNCHANGED <<threadnames, threadids>>
       ELSE /\ threadnames' = [threadnames EXCEPT
                                 ![loc[t].slot] = ThreadName(t)]
            /\ threadids' = [threadids EXCEPT ![loc[t].slot] = t]
            /\ Goto(t, "signin85")
            /\ UNCHANGED <<numthreads, signedin, loc, ret>>
    /\ UNCHANGED <<walloffset, wallcutoff, isrecording, samples, samplecounts,
                   tidx, now, skipenv, files, reports, author, rogue, oob,
                   frozen>>

\* lines 79-84: no slot left: pin the counter and return -1; otherwise
\* threadnames[slot] = threadname and threadids[slot] = pthread_self().
Signin79(t) ==
    /\ pc[t] = "signin79"
    /\ IF loc[t].slot >= MAXTHREADS
       THEN /\ numthreads' = MAXTHREADS
            /\ signedin' = [signedin EXCEPT ![t] = -1]
            /\ Return(t, "signin", -1, "NoCapacity", 0)
            /\ UNCHANGED <<threadnames, threadids>>
       ELSE /\ threadnames' = [threadnames EXCEPT
                                 ![loc[t].slot] = ThreadName(t)]
            /\ threadids' = [threadids EXCEPT ![loc[t].slot] = t]
            /\ Goto(t, "signin85")
            /\ UNCHANGED <<numthreads, signedin, loc, ret>>
    /\ UNCHANGED <<walloffset, wallcutoff, isrecording, samples, samplecounts,
                   tidx, now, skipenv, files, reports, author, rogue, oob,
                   frozen>>

\* lines 85-87: samplecounts[slot] = 0; tidx = slot; return slot.
Signin85(t) ==
    /\ pc[t] = "signin85"
    /\ samplecounts' = [samplecounts EXCEPT ![loc[t].slot] = 0]
    /\ tidx' = [tidx EXCEPT ![t] = loc[t].slot]
    /\ signedin' = [signedin EXCEPT ![t] = loc[t].slot]
    /\ Return(t, "signin", loc[t].slot, "ok", 0)
    /\ UNCHANGED <<numthreads, walloffset, wallcutoff, isrecording, samples,
                   threadnames, threadids, now, skipenv, files, reports,
                   author, rogue, oob, frozen>>

tt_signin(t) ==
    \/ Signin57(t) \/ Signin60(t) \/ Signin67(t) \/ Signin77(t)
    \/ Signin79(t) \/ Signin85(t)

\* ---------------------------------------------------------------- tt_stamp
\* The environment of the concurrent workload: the calling thread has been on
\* the CPU since the clock started and was never switched out.
ThreadCpuReadings == {now * SecondNs}
RusageReadings == {[ru_nivcsw |-> 0, ru_nvcsw |-> 0]}

\* samples is one block of MAXTHREADS * MAXSAMPLES elements: element k of row
\* sl with k >= MAXSAMPLES is an element of a later row, or lies past the end.
InBlock(sl, k) == sl * MAXSAMPLES + k < MAXTHREADS * MAXSAMPLES
RowOf(sl, k) == (sl * MAXSAMPLES + k) \div MAXSAMPLES
ColOf(sl, k) == (sl * MAXSAMPLES + k) % MAXSAMPLES

\* The concurrent workload brackets spans: a thread's stamps alternate
\* between Begin and End, starting from what its buffer holds.
NextPhase(t) == IF samplecounts[tidx[t]] % 2 = 0 THEN "B" ELSE "E"

\* lines 94-100: if (!isrecording) return -1.
Stamp94(t) ==
    /\ pc[t] = "idle"
    /\ signedin[t] \in Slots \/ rogue < MaxRogue
    /\ rogue' = IF signedin[t] \in Slots THEN rogue ELSE rogue + 1
    /\ IF isrecording = 0
       THEN /\ Return(t, "stamp", -1, "NotRecording", 0)
       ELSE /\ \E c \in Cats, g \in StampTags :
                   loc' = [loc EXCEPT ![t].cat = c, ![t].tag = g,
                                      ![t].phase = NextPhase(t)]
            /\ Goto(t, "stamp103")
            /\ UNCHANGED ret
    /\ UNCHANGED <<numthreads, walloffset, wallcutoff, isrecording, samples,
                   samplecounts, threadnames, threadids, tidx, signedin, now,
                   skipenv, files, reports, author, oob, frozen>>

\* Stamp103 with the reading compared against walloffset instead of
\* wallcutoff.
Stamp103_NoCutoff(t) ==
    /\ pc[t] = "stamp103"
    /\ \/ /\ SetRecording(0)
          /\ Return(t, "stamp", -1, "ResourceUsageUnavailable", 0)
       \/ /\ now * SecondNs < walloffset
          /\ Return(t, "stamp", -1, "BeforeCutoff", 0)
          /\ UNCHANGED <<isrecording, frozen>>
       \/ /\ ~(now * SecondNs < walloffset)
          /\ samplecounts[tidx[t]] >= MAXSAMPLES
          /\ SetRecording(0)
          /\ Return(t, "stamp", -1, "CapacityExceeded", 0)
       \/ /\ ~(now * SecondNs < walloffset)
          /\ ~(samplecounts[tidx[t]] >= MAXSAMPLES)
          /\ \E c \in ThreadCpuReadings, ru \in RusageReadings :
                 loc' = [loc EXCEPT ![t].wall_nsec = now * SecondNs,
                                    ![t].cpu_nsec = c,
                                    ![t].nivcsw = ru.ru_nivcsw,
                                    ![t].nvcsw = ru.ru_nvcsw]
          /\ Goto(t, "stamp129")
          /\ UNCHANGED <<isrecording, frozen, ret>>
    /\ UNCHANGED <<numthreads, walloffset, wallcutoff, samples, samplecounts,
                   threadnames, threadids, tidx, signedin, now, skipenv,
                   files, reports, author, rogue, oob>>

\* Stamp103 with the buffer taken to be full one sample too late.
Stamp103_OffByOne(t) ==
    /\ pc[t] = "stamp103"
    /\ \/ /\ SetRecording(0)
          /\ Return(t, "stamp", -1, "ResourceUsageUnavailable", 0)
       \/ /\ now * SecondNs < wallcutoff
          /\ Return(t, "stamp", -1, "BeforeCutoff", 0)
          /\ UNCHANGED <<isrecording, frozen>>
       \/ /\ ~(now * SecondNs < wallcutoff)
          /\ samplecounts[tidx[t]] > MAXSAMPLES
          /\ SetRecording(0)
          /\ Return(t, "stamp", -1, "CapacityExceeded", 0)
       \/ /\ ~(now * SecondNs < wallcutoff)
          /\ ~(samplecounts[tidx[t]] > MAXSAMPLES)
          /\ \E c \in ThreadCpuReadings, ru \in RusageReadings :
                 loc' = [loc EXCEPT ![t].wall_nsec = now * SecondNs,
                                    ![t].cpu_nsec = c,
                                    ![t].nivcsw = ru.ru_nivcsw,
                                    ![t].nvcsw = ru.ru_nvcsw]
          /\ Goto(t, "stamp129")
          /\ UNCHANGED <<isrecording, frozen, ret>>
    /\ UNCHANGED <<numthreads, walloffset, wallcutoff, samples, samplecounts,
                   threadnames, threadids, tidx, signedin, now, skipenv,
                   files, reports, author, rogue, oob>>

\* lines 102-128: read the clocks and getrusage; a failed getrusage stops
\* the recording; a reading before the cutoff is dropped; a full buffer
\* (cnt = samplecounts[tidx] >= MAXSAMPLES) stops the recording.
Stamp103(t) ==
    /\ pc[t] = "stamp103"
    /\ \/ /\ SetRecording(0)
          /\ Return(t, "stamp", -1, "ResourceUsageUnavailable", 0)
       \/ /\ now * SecondNs < wallcutoff
          /\ Return(t, "stamp", -1, "BeforeCutoff", 0)
          /\ UNCHANGED <<isrecording, frozen>>
       \/ /\ ~(now * SecondNs < wallcutoff)
          /\ samplecounts[tidx[t]] >= MAXSAMPLES
          /\ SetRecording(0)
          /\ Return(t, "stamp", -1, "CapacityExceeded", 0)
       \/ /\ ~(now * SecondNs < wallcutoff)
          /\ ~(samplecounts[tidx[t]] >= MAXSAMPLES)
          /\ \E c \in ThreadCpuReadings, ru \in RusageReadings :
                 loc' = [loc EXCEPT ![t].wall_nsec = now * SecondNs,
                                    ![t].cpu_nsec = c,
                                    ![t].nivcsw = ru.ru_nivcsw,
                                    ![t].nvcsw = ru.ru_nvcsw]
          /\ Goto(t, "stamp129")
          /\ UNCHANGED <<isrecording, frozen, ret>>
    /\ UNCHANGED <<numthreads, walloffset, wallcutoff, samples, samplecounts,
                   threadnames, threadids, tidx, signedin, now, skipenv,
                   files, reports, author, rogue, oob>>

\* lines 129-133: sample = samples[tidx] + samplecounts[tidx], then the
\* clock readings and the switch counters. The element pointed to may lie
\* beyond the row.
Stamp129(t) ==
    /\ pc[t] = "stamp129"
    /\ LET k == samplecounts[tidx[t]]
           r == RowOf(tidx[t], k)
           c == ColOf(tidx[t], k)
       IN /\ loc' = [loc EXCEPT ![t].sample = k]
          /\ oob' = (oob \/ k >= MAXSAMPLES)
          /\ IF InBlock(tidx[t], k)
             THEN /\ samples' =
                       [samples EXCEPT
                          ![r][c].wall_time = loc[t].wall_nsec - walloffset,
                          ![r][c].cpu_time = loc[t].cpu_nsec,
                          ![r][c].num_preemptive_switch = loc[t].nivcsw,
                          ![r][c].num_voluntary_switch = loc[t].nvcsw]
                  /\ author' = [author EXCEPT ![r][c] = t]
             ELSE UNCHANGED <<samples, author>>
    /\ Goto(t, "stamp134")
    /\ UNCHANGED <<numthreads, walloffset, wallcutoff, isrecording,
                   samplecounts, threadnames, threadids, tidx, ret, signedin,
                   now, skipenv, files, reports, rogue, frozen>>

\* Stamp134 with the phase left for later: the sample is counted before its
\* last field is stored.
Stamp134_PhaseLater(t) ==
    /\ pc[t] = "stamp134"
    /\ LET k == loc[t].sample
           r == RowOf(tidx[t], k)
           c == ColOf(tidx[t], k)
       IN IF InBlock(tidx[t], k)
          THEN /\ samples' = [samples EXCEPT ![r][c].tag = loc[t].tag,
                                             ![r][c].cat = loc[t].cat]
               /\ author' = [author EXCEPT ![r][c] = t]
          ELSE UNCHANGED <<samples, author>>
    /\ Goto(t, "stamp137")
    /\ UNCHANGED <<numthreads, walloffset, wallcutoff, isrecording,
                   samplecounts, threadnames, threadids, tidx, loc, ret,
                   signedin, now, skipenv, files, reports, rogue, oob,
                   frozen>>

\* lines 134-136: the tag, the category and the phase, through the pointer
\* taken at line 129.
Stamp134(t) ==
    /\ pc[t] = "stamp134"
    /\ LET k == loc[t].sample
           r == RowOf(tidx[t], k)
           c == ColOf(tidx[t], k)
       IN IF InBlock(tidx[t], k)
          THEN /\ samples' = [samples EXCEPT ![r][c].tag = loc[t].tag,
                                             ![r][c].cat = loc[t].cat,
                                             ![r][c].phase = loc[t].phase]
               /\ author' = [author EXCEPT ![r][c] = t]
          ELSE UNCHANGED <<samples, author>>
    /\ Goto(t, "stamp137")
    /\ UNCHANGED <<numthreads, walloffset, wallcutoff, isrecording,
                   samplecounts, threadnames, threadids, tidx, loc, ret,
                   signedin, now, skipenv, files, reports, rogue, oob,
                   frozen>>

\* line 137: return samplecounts[tidx]++.
Stamp137(t) ==
    /\ pc[t] = "stamp137"
    /\ samplecounts' = [samplecounts EXCEPT ![tidx[t]] = @ + 1]
    /\ Return(t, "stamp", samplecounts[tidx[t]], "ok", 0)
    /\ UNCHANGED <<numthreads, walloffset, wallcutoff, isrecording, samples,
                   threadnames, threadids, tidx, signedin, now, skipenv,
                   files, reports, author, rogue, oob, frozen>>

tt_stamp(t) ==
    \/ Stamp94(t) \/ Stamp103(t) \/ Stamp129(t) \/ Stamp134(t)
    \/ Stamp137(t)

\* ---------------------------------------------------------------- tt_report
\* C integer division truncates towards zero.
CDiv(a, b) ==
    LET abs(x) == IF x < 0 THEN -x ELSE x
    IN IF (a < 0) = (b < 0) THEN abs(a) \div abs(b)
       ELSE -(abs(a) \div abs(b))

\* What the calls of fprintf on f write: the opening of the array, a
\* separator, one sample's record, one thread's metadata record, the closing.
OpenTok == [kind |-> "open"]
CommaTok == [kind |-> "comma"]
CloseTok == [kind |-> "close"]
\* lines 212-227; ts and tts are in the model's clock unit.
EventTok(sample, tid, argstr) ==
    [kind |-> "event", cat |-> sample.cat, tid |-> tid,
     ts |-> sample.wall_time, tts |-> sample.cpu_time, ph |-> sample.phase,
     name |-> sample.tag, args |-> argstr]
\* lines 237-244
MetaTok(tid, name) ==
    [kind |-> "meta", name |-> "thread_name", ph |-> "M", tid |-> tid,
     args |-> name]

\* lines 249-250: "Wrote %d events (%d discarded)".
WroteTok(total, discarded) ==
    [kind |-> "wrote", total |-> total, discarded |-> discarded]

\* lines 164-165: "Nothing to report, 0 threads signed in."
NothingTok == [kind |-> "nothing"]

\* The process is killed (SIGSEGV, SIGFPE): nothing runs any more.
Crash ==
    /\ pc' = [u \in Threads |-> "crashed"]
    /\ UNCHANGED <<loc, ret>>

\* The workload names the output of its k-th report after k.
ReportName(k) == IF k % 2 = 1 THEN "a" ELSE "b"

\* line 154: isrecording = 0; lines 155-161 pick the output name.
Report154(t) ==
    /\ pc[t] = "idle"
    /\ reports' = reports + 1
    /\ SetRecording(0)
    /\ loc' = [loc EXCEPT ![t].oname = ReportName(reports + 1)]
    /\ Goto(t, "report163")
    /\ UNCHANGED <<numthreads, walloffset, wallcutoff, samples, samplecounts,
                   threadnames, threadids, tidx, ret, signedin, now, skipenv,
                   files, author, rogue, oob>>

\* Report163 with the file opened before the thread count is looked at.
Report163_OpensFirst(t) ==
    /\ pc[t] = "report163"
    /\ \/ /\ numthreads = 0
          /\ files' = [files EXCEPT !["stderr"] = Append(@, NothingTok),
                                    ![loc[t].oname] = <<>>]
          /\ Return(t, "report", -1, "NoData", 0)
       \/ /\ numthreads # 0
          /\ Return(t, "report", -1, "IOError", 0)
          /\ UNCHANGED files
       \/ /\ numthreads # 0
          /\ files' = [files EXCEPT ![loc[t].oname] = <<>>]
          /\ loc' = [loc EXCEPT ![t].total = 0, ![t].discarded = 0,
                                ![t].f = <<OpenTok>>, ![t].t = 0, ![t].s = 0]
          /\ Goto(t, "report176")
          /\ UNCHANGED ret
    /\ UNCHANGED <<numthreads, walloffset, wallcutoff, isrecording, samples,
                   samplecounts, threadnames, threadids, tidx, signedin, now,
                   skipenv, reports, author, rogue, oob, frozen>>

\* lines 163-174: nothing to report when no thread signed in; otherwise
\* fopen(oname, "w") fails, or truncates the file and the opening of the
\* array is written.
Report163(t) ==
    /\ pc[t] = "report163"
    /\ \/ /\ numthreads = 0
          /\ files' = [files EXCEPT !["stderr"] = Append(@, NothingTok)]
          /\ Return(t, "report", -1, "NoData", 0)
       \/ /\ numthreads # 0
          /\ Return(t, "report", -1, "IOError", 0)
          /\ UNCHANGED files
       \/ /\ numthreads # 0
          /\ files' = [files EXCEPT ![loc[t].oname] = <<>>]
          /\ loc' = [loc EXCEPT ![t].total = 0, ![t].discarded = 0,
                                ![t].f = <<OpenTok>>, ![t].t = 0, ![t].s = 0]
          /\ Goto(t, "report176")
          /\ UNCHANGED ret
    /\ UNCHANGED <<numthreads, walloffset, wallcutoff, isrecording, samples,
                   samplecounts, threadnames, threadids, tidx, signedin, now,
                   skipenv, reports, author, rogue, oob, frozen>>

\* line 176: for (t = 0; t < numthreads; ...), then line 235: t = 0.
Report176(t) ==
    /\ pc[t] = "report176"
    /\ IF loc[t].t < numthreads
       THEN /\ loc' = [loc EXCEPT ![t].s = 0]
            /\ Goto(t, "report177")
       ELSE /\ loc' = [loc EXCEPT ![t].t = 0, ![t].s = 0]
            /\ Goto(t, "report235")
    /\ UNCHANGED <<numthreads, walloffset, wallcutoff, isrecording, samples,
                   samplecounts, threadnames, threadids, tidx, ret, signedin,
                   now, skipenv, files, reports, author, rogue, oob, frozen>>

\* lines 210-228: a separator unless this is the first record, the record,
\* total++; then ++s.
Emit(t, sample, argstr) ==
    loc' = [loc EXCEPT
              ![t].f = (IF loc[t].total # 0 THEN Append(@, CommaTok) ELSE @)
                       \o <<EventTok(sample, threadids[loc[t].t], argstr)>>,
              ![t].total = @ + 1,
              ![t].s = @ + 1,
              ![t].i = 0]

\* lines 183-184 and 191-192: discarded++, goto notfound; then ++s.
Discard(t) ==
    loc' = [loc EXCEPT ![t].discarded = @ + 1, ![t].s = @ + 1, ![t].i = 0]

\* lines 177-186 and 207-228: for (s = 0; s < samplecounts[t]; ...), at the
\* end of the row ++t. A sample that is no End is written with empty args; an
\* End at s = 0 is discarded; another End starts the scan at s - 1.
\* samplecounts[t] with t >= MAXTHREADS reads past the array: the process is
\* killed or the loop sees no samples. phase is dereferenced.
Report177(t) ==
    /\ pc[t] = "report177"
    /\ IF loc[t].t \notin Slots
       THEN /\ oob' = TRUE
            /\ \/ Crash
               \/ /\ loc' = [loc EXCEPT ![t].t = @ + 1]
                  /\ Goto(t, "report176")
                  /\ UNCHANGED ret
       ELSE /\ UNCHANGED oob
            /\ IF loc[t].s < samplecounts[loc[t].t]
               THEN IF ~InBlock(loc[t].t, loc[t].s)
                    THEN Crash
                    ELSE LET sample ==
                               samples[RowOf(loc[t].t, loc[t].s)]
                                      [ColOf(loc[t].t, loc[t].s)]
                         IN IF sample.phase = NULL
                            THEN Crash
                            ELSE IF sample.phase = "E"
                                 THEN IF loc[t].s = 0
                                      THEN /\ Discard(t)
                                           /\ UNCHANGED <<pc, ret>>
                                      ELSE /\ loc' = [loc EXCEPT
                                                 ![t].i = loc[t].s - 1]
                                           /\ Goto(t, "report187")
                                           /\ UNCHANGED ret
                                 ELSE /\ Emit(t, sample, <<>>)
                                      /\ UNCHANGED <<pc, ret>>
               ELSE /\ loc' = [loc EXCEPT ![t].t = @ + 1]
                    /\ Goto(t, "report176")
                    /\ UNCHANGED ret
    /\ UNCHANGED <<numthreads, walloffset, wallcutoff, isrecording, samples,
                   samplecounts, threadnames, threadids, tidx, signedin, now,
                   skipenv, files, reports, author, rogue, frozen>>

\* Metrics with a duty cycle that is rounded up.
Metrics_RoundsUp(sample, beginsample) ==
    LET preempted == sample.num_preemptive_switch
                     - beginsample.num_preemptive_switch
        voluntary == sample.num_voluntary_switch
                     - beginsample.num_voluntary_switch
        walldur == sample.wall_time - beginsample.wall_time
        cpudur == sample.cpu_time - beginsample.cpu_time
    IN IF walldur = 0
       THEN {<<preempted, voluntary, 0>>, <<"SIGFPE">>}
       ELSE {<<preempted, voluntary,
               CDiv(100 * cpudur + walldur - 1, walldur)>>}

\* lines 195-206: the metrics of an End against its Begin. A division by
\* zero kills the process or yields 0, depending on the machine.
Metrics(sample, beginsample) ==
    LET preempted == sample.num_preemptive_switch
                     - beginsample.num_preemptive_switch
        voluntary == sample.num_voluntary_switch
                     - beginsample.num_voluntary_switch
        walldur == sample.wall_time - beginsample.wall_time
        cpudur == sample.cpu_time - beginsample.cpu_time
    IN IF walldur = 0
       THEN {<<preempted, voluntary, 0>>, <<"SIGFPE">>}
       ELSE {<<preempted, voluntary, CDiv(100 * cpudur, walldur)>>}

\* Report187 with a scan that stops at the nearest Begin whatever its tag.
Report187_AnyTag(t) ==
    /\ pc[t] = "report187"
    /\ LET sample == samples[RowOf(loc[t].t, loc[t].s)]
                            [ColOf(loc[t].t, loc[t].s)]
           b == samples[loc[t].t][loc[t].i]
       IN IF b.phase # "B"
          THEN IF loc[t].i - 1 < 0
               THEN /\ Discard(t)
                    /\ Goto(t, "report177")
                    /\ UNCHANGED ret
               ELSE /\ loc' = [loc EXCEPT ![t].i = @ - 1]
                    /\ UNCHANGED <<pc, ret>>
          ELSE \E m \in Metrics(sample, b) :
                 IF m = <<"SIGFPE">>
                 THEN Crash
                 ELSE /\ Emit(t, sample, m)
                      /\ Goto(t, "report177")
                      /\ UNCHANGED ret
    /\ UNCHANGED <<numthreads, walloffset, wallcutoff, isrecording, samples,
                   samplecounts, threadnames, threadids, tidx, signedin, now,
                   skipenv, files, reports, author, rogue, oob, frozen>>

\* lines 187-228: one evaluation of the while condition. When it holds, i--
\* and the End is discarded once i < 0; when it fails, samples[t][i] is the
\* Begin: the metrics are computed and the End is written.
Report187(t) ==
    /\ pc[t] = "report187"
    /\ LET sample == samples[RowOf(loc[t].t, loc[t].s)]
                            [ColOf(loc[t].t, loc[t].s)]
           b == samples[loc[t].t][loc[t].i]
       IN IF b.tag = NULL \/ sample.tag = NULL \/ b.phase = NULL
          THEN Crash
          ELSE IF b.tag # sample.tag \/ b.phase # "B"
               THEN IF loc[t].i - 1 < 0
                    THEN /\ Discard(t)
                         /\ Goto(t, "report177")
                         /\ UNCHANGED ret
                    ELSE /\ loc' = [loc EXCEPT ![t].i = @ - 1]
                         /\ UNCHANGED <<pc, ret>>
               ELSE \E m \in Metrics(sample, b) :
                      IF m = <<"SIGFPE">>
                      THEN Crash
                      ELSE /\ Emit(t, sample, m)
                           /\ Goto(t, "report177")
                           /\ UNCHANGED ret
    /\ UNCHANGED <<numthreads, walloffset, wallcutoff, isrecording, samples,
                   samplecounts, threadnames, threadids, tidx, signedin, now,
                   skipenv, files, reports, author, rogue, oob, frozen>>

\* Report235 with a return value that counts the metadata records too.
Report235_CountsMeta(t) ==
    /\ pc[t] = "report235"
    /\ IF loc[t].t < numthreads
       THEN IF loc[t].t \notin Slots
            THEN /\ oob' = TRUE
                 /\ UNCHANGED files
                 /\ \/ Crash
                    \/ /\ loc' = [loc EXCEPT
                                    ![t].f = @ \o <<CommaTok, MetaTok(0, NULL)>>,
                                    ![t].t = @ + 1]
                       /\ UNCHANGED <<pc, ret>>
            ELSE /\ loc' = [loc EXCEPT
                              ![t].f = @ \o <<CommaTok,
                                              MetaTok(threadids[loc[t].t],
                                                      threadnames[loc[t].t])>>,
                              ![t].t = @ + 1]
                 /\ UNCHANGED <<pc, ret, oob, files>>
       ELSE /\ files' = [files EXCEPT
                           ![loc[t].oname] = Append(loc[t].f, CloseTok),
                           !["stderr"] = Append(@, WroteTok(loc[t].total,
                                                            loc[t].discarded))]
            /\ Return(t, "report", loc[t].total + numthreads, "ok",
                      loc[t].discarded)
            /\ UNCHANGED oob
    /\ UNCHANGED <<numthreads, walloffset, wallcutoff, isrecording, samples,
                   samplecounts, threadnames, threadids, tidx, signedin, now,
                   skipenv, reports, author, rogue, frozen>>

\* Report235 with a pass that consumes what it reported: the buffers are
\* emptied when the file is closed.
Report235_Clears(t) ==
    /\ pc[t] = "report235"
    /\ IF loc[t].t < numthreads /\ loc[t].t \in Slots
       THEN /\ loc' = [loc EXCEPT
                         ![t].f = @ \o <<CommaTok,
                                         MetaTok(threadids[loc[t].t],
                                                 threadnames[loc[t].t])>>,
                         ![t].t = @ + 1]
            /\ UNCHANGED <<pc, ret, files, samplecounts>>
       ELSE /\ files' = [files EXCEPT
                           ![loc[t].oname] = Append(loc[t].f, CloseTok),
                           !["stderr"] = Append(@, WroteTok(loc[t].total,
                                                            loc[t].discarded))]
            /\ samplecounts' = [sl \in Slots |-> 0]
            /\ Return(t, "report", loc[t].total, "ok", loc[t].discarded)
    /\ UNCHANGED <<numthreads, walloffset, wallcutoff, isrecording, samples,
                   threadnames, threadids, tidx, signedin, now, skipenv,
                   reports, author, rogue, oob, frozen>>

\* lines 235-251: one metadata record per thread, each after a separator;
\* then the array and the file are closed and total is returned.
Report235(t) ==
    /\ pc[t] = "report235"
    /\ IF loc[t].t < numthreads
       THEN IF loc[t].t \notin Slots
            THEN /\ oob' = TRUE
                 /\ UNCHANGED files
                 /\ \/ Crash
                    \/ /\ loc' = [loc EXCEPT
                                    ![t].f = @ \o <<CommaTok, MetaTok(0, NULL)>>,
                                    ![t].t = @ + 1]
                       /\ UNCHANGED <<pc, ret>>
            ELSE /\ loc' = [loc EXCEPT
                              ![t].f = @ \o <<CommaTok,
                                              MetaTok(threadids[loc[t].t],
                                                      threadnames[loc[t].t])>>,
                              ![t].t = @ + 1]
                 /\ UNCHANGED <<pc, ret, oob, files>>
       ELSE /\ files' = [files EXCEPT
                           ![loc[t].oname] = Append(loc[t].f, CloseTok),
                           !["stderr"] = Append(@, WroteTok(loc[t].total,
                                                            loc[t].discarded))]
            /\ Return(t, "report", loc[t].total, "ok", loc[t].discarded)
            /\ UNCHANGED oob
    /\ UNCHANGED <<numthreads, walloffset, wallcutoff, isrecording, samples,
                   samplecounts, threadnames, threadids, tidx, signedin, now,
                   skipenv, reports, author, rogue, frozen>>

\* tt_report after its first statement.
ReportBody(t) ==
    \/ Report163(t) \/ Report176(t) \/ Report177(t) \/ Report187(t)
    \/ Report235(t)

tt_report(t) == Report154(t) \/ ReportBody(t)

\* ---------------------------------------------------------------- Spec
Next ==
    \/ Tick
    \/ \E t \in Threads : tt_signin(t)
    \/ \E t \in Stampers : tt_stamp(t)

Spec == Init /\ [][Next]_vars

\* The reporter calls tt_report, at most MaxRaceReports times.
RaceReport ==
    /\ reports < MaxRaceReports
    /\ Report154(Reporter)

NextRace ==
    \/ Tick
    \/ \E t \in Threads : tt_signin(t)
    \/ tt_stamp(RaceStamper)
    \/ RaceReport
    \/ ReportBody(Reporter)

SpecRace == Init /\ [][NextRace]_vars

\* ---------------------------------------------------------------- SpecReport
\* The states tt_report is meant to be called in: n threads signed in one
\* after the other (thread k got slot k - 1), stamped, and are at rest.
\* A row is what one thread stamped: any tags and phases, with clock and
\* rusage readings that follow one of three schedules (the same for all
\* threads of a run).
Tempos == {"burst", "busy", "idle"}
Reading(tempo, j) ==
    IF tempo = "burst"
    THEN [wall_time |-> 0, cpu_time |-> 0, npre |-> 0, nvol |-> 0]
    ELSE IF tempo = "busy"
         THEN [wall_time |-> 5 * j, cpu_time |-> 4 * j, npre |-> j, nvol |-> 0]
         ELSE [wall_time |-> 3 * j, cpu_time |-> j, npre |-> 0, nvol |-> 2 * j]

StampedSample(tempo, j, arg) ==
    [cat |-> "c", tag |-> arg[1], phase |-> arg[2],
     wall_time |-> Reading(tempo, j).wall_time,
     cpu_time |-> Reading(tempo, j).cpu_time,
     num_preemptive_switch |-> Reading(tempo, j).npre,
     num_voluntary_switch |-> Reading(tempo, j).nvol]

StampArgs == Tags \X Phases

InitReport ==
    \E n \in 0..MAXTHREADS :
    \E len \in [Slots -> 0..MAXSAMPLES] :
    \E tempo \in Tempos :
    \E args \in [Slots -> [Indices -> StampArgs]] :
        /\ \A sl \in Slots : sl >= n => len[sl] = 0
        /\ (\A sl \in Slots : len[sl] = 0) => tempo = "burst"
        /\ \A sl \in Slots : \A k \in Indices :
               k >= len[sl] => args[sl][k] = <<"x", "B">>
        /\ numthreads = n
        /\ walloffset = 0
        /\ wallcutoff = 0
        /\ isrecording = (IF n = 0 THEN 0 ELSE 1)
        /\ samplecounts = len
        /\ samples = [sl \in Slots |-> [k \in Indices |->
                         IF k < len[sl]
                         THEN StampedSample(tempo, k, args[sl][k])
                         ELSE ZeroSample]]
        /\ threadnames = [sl \in Slots |->
                            IF sl < n THEN ThreadName(sl + 1) ELSE NULL]
        /\ threadids = [sl \in Slots |-> IF sl < n THEN sl + 1 ELSE 0]
        /\ tidx = [t \in Threads |-> IF t <= n THEN t - 1 ELSE 0]
        /\ signedin = [t \in Threads |-> IF t <= n THEN t - 1 ELSE NotCalled]
        /\ author = [sl \in Slots |-> [k \in Indices |->
                        IF k < len[sl] THEN sl + 1 ELSE 0]]
        /\ pc = [t \in Threads |-> "idle"]
        /\ loc = [t \in Threads |-> NoLocals]
        /\ ret = NoResult
        /\ now = MaxTime
        /\ skipenv = Unset
        /\ files = [o \in Streams |-> IF o = "stderr" THEN <<>> ELSE NoFile]
        /\ reports = 0
        /\ rogue = 0
        /\ oob = FALSE
        /\ frozen = FALSE

\* The reporter calls tt_report, at most MaxReports times.
AgainReport ==
    /\ reports < MaxReports
    /\ Report154(Reporter)

NextReport ==
    \/ AgainReport
    \/ ReportBody(Reporter)

SpecReport == InitReport /\ [][NextReport]_vars

TypeOK ==
    /\ numthreads \in 0..(NumThreads + MAXTHREADS)
    /\ isrecording \in {0, 1}
    /\ \A sl \in Slots : samplecounts[sl] \in 0..(MAXSAMPLES + NumThreads)

\* ---------------------------------------------------------------- claims
InSignin(t) ==
    pc[t] \in {"signin60", "signin67", "signin77", "signin79", "signin85"}
Returned == {t \in Threads : signedin[t] # NotCalled}
Succeeded == {t \in Threads : signedin[t] \in Slots}
Failed == {t \in Threads : signedin[t] = -1}

\* C1: whatever the interleaving of the tt_signin calls, the calls that
\* succeeded returned pairwise distinct indices; once no call is in progress
\* the indices returned are exactly 0..K-1 with K = min(calls, MAXTHREADS),
\* and the other calls failed with -1 (no capacity).
C1_DistinctDenseSlots ==
    /\ \A t \in Returned : signedin[t] \in Slots \cup {-1}
    /\ \A t, u \in Succeeded : t # u => signedin[t] # signedin[u]
    /\ (\A t \in Threads : ~InSignin(t)) =>
           LET K == IF Cardinality(Returned) < MAXTHREADS
                    THEN Cardinality(Returned) ELSE MAXTHREADS
           IN /\ {signedin[t] : t \in Succeeded} = 0..(K - 1)
              /\ Cardinality(Failed) = Cardinality(Returned) - K
    /\ (ret.op = "signin" /\ ret.val = -1) => ret.err = "NoCapacity"

\* MAXTHREADS + 1 threads called tt_signin with their calls overlapping, and
\* all have returned: MAXTHREADS succeeded and one failed.
C1_Witness ==
    /\ Returned = Threads
    /\ Cardinality(Succeeded) = MAXTHREADS
    /\ Cardinality(Failed) = 1
    /\ ret.op = "signin" /\ ret.err = "NoCapacity"

\* ---------------------------------------------------------------- C2..C5
\* A file tt_report wrote and closed.
Closed(o) ==
    /\ files[o] # NoFile
    /\ Len(files[o]) > 0
    /\ files[o][Len(files[o])] = CloseTok

\* The thread has not called tt_signin.
NeverCalled(t) == signedin[t] = NotCalled /\ ~InSignin(t)

Written == {p \in Slots \X Indices : author[p[1]][p[2]] # 0}

\* C2: a thread that never called tt_signin gets NotRecording from every
\* tt_stamp call, and no sample in any buffer was written by such a thread,
\* whatever the other threads did before.
C2_UnregisteredNeverRecords ==
    /\ (ret.op = "stamp" /\ NeverCalled(ret.thread))
           => ret.err = "NotRecording"
    /\ \A p \in Written : ~NeverCalled(author[p[1]][p[2]])

\* C3: every sample stored in slot i was written by the thread whose
\* tt_signin returned i, also when threads stamp whose tt_signin failed or
\* while the first tt_signin is still running.
C3_OnlyOwnerWrites ==
    \A p \in Written : signedin[author[p[1]][p[2]]] = p[1]

\* C4: once recording went from enabled to disabled it stays disabled;
\* every tt_stamp call made from then on returns NotRecording and leaves the
\* slots, the sample counts and the samples as they were; tt_signin calls do
\* not enable it again.
C4_StaysDisabled ==
    /\ [](frozen => isrecording = 0)
    /\ [][frozen =>
            \A t \in Threads :
               pc[t] = "idle" =>
                  /\ pc'[t] # "stamp103"
                  /\ (pc'[t] = "idle" /\ ret' # ret /\ ret'.thread = t) =>
                        /\ ret'.op = "stamp"
                        /\ ret'.err = "NotRecording"
                        /\ UNCHANGED <<numthreads, samples, samplecounts,
                                       threadnames, threadids, isrecording>>
         ]_vars

\* Recording was stopped after samples were stored, a later tt_stamp got
\* NotRecording, and a tt_signin call is running.
C4_Witness ==
    /\ frozen
    /\ ret.op = "stamp" /\ ret.err = "NotRecording"
    /\ \E sl \in Slots : samplecounts[sl] > 0
    /\ \E t \in Threads : InSignin(t)

\* Some tt_report call has returned an event count.
Reported == \E o \in ONames : Closed(o)

\* C5: after a tt_report call returned an event count, no tt_stamp call that
\* starts gets past the recording check.
C5_FrozenAfterReport ==
    [][Reported =>
          \A t \in Threads : ~(pc[t] = "idle" /\ pc'[t] = "stamp103")]_vars

\* ---------------------------------------------------------------- C9, C10
Delay == IF skipenv = Unset THEN 0 ELSE skipenv

\* C9: every stored sample has wall_time >= delay; a tt_stamp call whose
\* clock reading is before offset + delay stores nothing, and the call that
\* is dropped for that reason leaves isrecording as it was.
C9_CutoffRespected ==
    /\ [](\A p \in Written :
              samples[p[1]][p[2]].wall_time >= Delay * SecondNs)
    /\ [][\A t \in Threads :
             /\ (pc[t] = "stamp103" /\ pc'[t] = "stamp129")
                   => ~(now * SecondNs < walloffset + Delay * SecondNs)
             /\ (pc[t] = "stamp103" /\ pc'[t] = "idle"
                   /\ ret'.err = "BeforeCutoff")
                   => /\ now * SecondNs < walloffset + Delay * SecondNs
                      /\ UNCHANGED <<isrecording, samples, samplecounts>>
         ]_vars

\* With a delay configured, one call was dropped before the cutoff, the
\* recording is still enabled and a later call has stored a sample.
C9_Witness ==
    /\ Delay >= 1
    /\ ret.op = "stamp" /\ ret.err = "BeforeCutoff"
    /\ isrecording = 1
    /\ Written # {}

\* C10: as long as only threads that hold a slot stamp, no sample count
\* exceeds MAXSAMPLES and nothing is written past a row; a call that passes
\* the cutoff test with a full buffer stores nothing, stops the recording and
\* returns CapacityExceeded.
C10_CapacityRespected ==
    /\ [](rogue = 0 =>
             /\ ~oob
             /\ \A sl \in Slots : samplecounts[sl] <= MAXSAMPLES)
    /\ [][\A t \in Threads :
             (/\ rogue = 0
              /\ pc[t] = "stamp103" /\ pc'[t] # "stamp103"
              /\ samplecounts[tidx[t]] >= MAXSAMPLES
              /\ ~(now * SecondNs < wallcutoff)
              /\ ~(pc'[t] = "idle" /\ ret'.err = "ResourceUsageUnavailable"))
             => /\ pc'[t] = "idle"
                /\ ret'.thread = t /\ ret'.err = "CapacityExceeded"
                /\ isrecording' = 0
                /\ UNCHANGED <<samples, samplecounts>>
         ]_vars

\* A thread that holds a slot filled its buffer and its next call returned
\* CapacityExceeded.
C10_Witness ==
    /\ rogue = 0
    /\ ret.op = "stamp" /\ ret.err = "CapacityExceeded"
    /\ samplecounts[tidx[ret.thread]] = MAXSAMPLES
    /\ isrecording = 0

\* ---------------------------------------------------------------- C6..C8
\* C6: tt_report changes no slot, sample or sample count, and consecutive
\* calls with nothing stamped in between write the same records and report
\* the same number of events and of discarded samples.
C6_ReportRepeatable ==
    /\ [][UNCHANGED <<numthreads, samples, samplecounts, threadnames,
                      threadids, tidx>>]_vars
    /\ [](\A i, j \in 1..Len(files["stderr"]) :
              files["stderr"][i] = files["stderr"][j])
    /\ []((pc[Reporter] = "idle" /\ Closed("a") /\ Closed("b"))
              => files["a"] = files["b"])
    /\ []((ret.op = "report" /\ ret.err = "ok") =>
              /\ Len(files["stderr"]) > 0
              /\ ret.val = files["stderr"][Len(files["stderr"])].total)

\* Two reports ran one after the other on buffers that hold samples, some of
\* them Ends without a Begin.
C6_Witness ==
    /\ Len(files["stderr"]) = 2
    /\ files["stderr"][2].kind = "wrote"
    /\ files["stderr"][2].total > 0
    /\ files["stderr"][2].discarded > 0
    /\ Closed("a") /\ Closed("b")

\* The End at samples[sl][k] has no earlier Begin with its tag in its row.
Unmatched(sl, k) ==
    /\ samples[sl][k].phase = "E"
    /\ ~ \E j \in 0..(k - 1) : /\ samples[sl][j].phase = "B"
                               /\ samples[sl][j].tag = samples[sl][k].tag

Stored == {p \in Slots \X Indices : p[1] < numthreads
                                     /\ p[2] < samplecounts[p[1]]}

\* The samples that must appear in the output, in the order of the pass.
RECURSIVE KeptFrom(_, _)
KeptFrom(sl, k) ==
    IF sl >= numthreads \/ sl \notin Slots THEN <<>>
    ELSE IF k >= samplecounts[sl] THEN KeptFrom(sl + 1, 0)
    ELSE IF Unmatched(sl, k) THEN KeptFrom(sl, k + 1)
    ELSE <<[tid |-> threadids[sl], ph |-> samples[sl][k].phase,
            name |-> samples[sl][k].tag, ts |-> samples[sl][k].wall_time]>>
         \o KeptFrom(sl, k + 1)

EventsOf(f) ==
    LET ev == SelectSeq(f, LAMBDA tok : tok.kind = "event")
    IN [n \in 1..Len(ev) |-> [tid |-> ev[n].tid, ph |-> ev[n].ph,
                              name |-> ev[n].name, ts |-> ev[n].ts]]

\* C7: an End is left out of the output and counted as discarded exactly when
\* its own row holds no earlier Begin with its tag, whatever the other rows
\* hold; the pass goes on after it.
C7_DiscardIffNoOwnBegin ==
    /\ \A o \in ONames : Closed(o) /\ (pc[Reporter] = "idle" \/ loc[Reporter].oname # o)
           => EventsOf(files[o]) = KeptFrom(0, 0)
    /\ \A n \in 1..Len(files["stderr"]) :
           files["stderr"][n].kind = "wrote" =>
              files["stderr"][n].discarded =
                  Cardinality({p \in Stored : Unmatched(p[1], p[2])})
    /\ pc[Reporter] = "crashed" =>
           ~Unmatched(loc[Reporter].t, loc[Reporter].s)

\* A report finished on buffers where an End was discarded although another
\* thread's row holds a Begin with its tag, and where an End was matched.
C7_Witness ==
    /\ Closed("a")
    /\ \E p \in Stored :
           /\ Unmatched(p[1], p[2])
           /\ \E q \in Stored : /\ q[1] # p[1]
                                /\ samples[q[1]][q[2]].phase = "B"
                                /\ samples[q[1]][q[2]].tag
                                     = samples[p[1]][p[2]].tag
           /\ \E q \in Stored : q[1] = p[1] /\ q[2] > p[2]
    /\ \E p \in Stored : samples[p[1]][p[2]].phase = "E"
                         /\ ~Unmatched(p[1], p[2])

\* The array tt_report wrote: records separated by single separators.
WellFormed(f) ==
    /\ Len(f) >= 2
    /\ f[1] = OpenTok
    /\ f[Len(f)] = CloseTok
    /\ Len(f) % 2 = 1 \/ Len(f) = 2
    /\ \A n \in 2..(Len(f) - 1) :
           IF n % 2 = 0 THEN f[n].kind \in {"event", "meta"}
           ELSE f[n] = CommaTok

\* C8: the traceEvents array of every report is well-formed: a separator
\* stands only between two records, never before the first one.
C8_WellFormedArray ==
    \A o \in ONames : Closed(o) => WellFormed(files[o])

\* ---------------------------------------------------------------- C11
\* The positions of the samples that must appear in the output, in the order
\* of the pass.
RECURSIVE KeptAt(_, _)
KeptAt(sl, k) ==
    IF sl >= numthreads \/ sl \notin Slots THEN <<>>
    ELSE IF k >= samplecounts[sl] THEN KeptAt(sl + 1, 0)
    ELSE IF Unmatched(sl, k) THEN KeptAt(sl, k + 1)
    ELSE <<(<<sl, k>>)>> \o KeptAt(sl, k + 1)

\* The nearest earlier Begin with the tag of samples[sl][k] in row sl.
NearestBegin(sl, k) ==
    CHOOSE j \in 0..(k - 1) :
        /\ samples[sl][j].phase = "B"
        /\ samples[sl][j].tag = samples[sl][k].tag
        /\ \A h \in (j + 1)..(k - 1) :
              ~(samples[sl][h].phase = "B"
                /\ samples[sl][h].tag = samples[sl][k].tag)

WallDuration(sl, k) ==
    samples[sl][k].wall_time - samples[sl][NearestBegin(sl, k)].wall_time

\* floor(100 * cpu duration / wall duration)
DutyCyclePercent(sl, k) ==
    (100 * (samples[sl][k].cpu_time
            - samples[sl][NearestBegin(sl, k)].cpu_time))
        \div WallDuration(sl, k)

EventRecords(f) == SelectSeq(f, LAMBDA tok : tok.kind = "event")

\* C11: every End written by tt_report carries the metrics against the
\* nearest earlier Begin with its tag in its own row: preempted and voluntary
\* are the differences of the switch counters, and the duty cycle is
\* floor(100 * cpu duration / wall duration) when the wall duration is
\* positive.
C11_MetricsAgainstNearestBegin ==
    \A o \in ONames :
       (Closed(o) /\ (pc[Reporter] = "idle" \/ loc[Reporter].oname # o)) =>
          LET ev == EventRecords(files[o])
              at == KeptAt(0, 0)
          IN /\ Len(ev) = Len(at)
             /\ \A n \in 1..Len(at) :
                   LET sl == at[n][1]
                       k == at[n][2]
                       b == NearestBegin(sl, k)
                   IN samples[sl][k].phase = "E" =>
                        /\ ev[n].ph = "E"
                        /\ Len(ev[n].args) = 3
                        /\ ev[n].args[1] =
                              samples[sl][k].num_preemptive_switch
                              - samples[sl][b].num_preemptive_switch
                        /\ ev[n].args[2] =
                              samples[sl][k].num_voluntary_switch
                              - samples[sl][b].num_voluntary_switch
                        /\ WallDuration(sl, k) > 0 =>
                              ev[n].args[3] = DutyCyclePercent(sl, k)

\* A report finished on a row Begin, Begin, End with one tag and advancing
\* clocks, and on a span whose duty cycle is not a whole quotient.
C11_Witness ==
    /\ Closed("a")
    /\ \E sl \in Slots :
          /\ sl < numthreads /\ samplecounts[sl] = 3
          /\ samples[sl][0].phase = "B" /\ samples[sl][1].phase = "B"
          /\ samples[sl][2].phase = "E"
          /\ samples[sl][0].tag = samples[sl][2].tag
          /\ samples[sl][1].tag = samples[sl][2].tag
          /\ samples[sl][2].num_voluntary_switch
               > samples[sl][1].num_voluntary_switch
          /\ samples[sl][1].num_voluntary_switch
               > samples[sl][0].num_voluntary_switch
    /\ \E n \in 1..Len(files["a"]) :
          /\ files["a"][n].kind = "event" /\ files["a"][n].ph = "E"
          /\ files["a"][n].args = <<0, 2, 33>>

\* ---------------------------------------------------------------- C12
\* A tt_report call has found that no thread had signed in.
NoDataSeen ==
    \E n \in 1..Len(files["stderr"]) : files["stderr"][n] = NothingTok

\* C12: a tt_report call that finds no thread signed in returns -1 (NoData)
\* without creating or truncating a file and without changing a slot, a
\* buffer, a counter or the clock offsets; it does not stop a recording, and
\* a first tt_signin that completes afterwards leaves recording enabled.
C12_NoDataLeavesNoTrace ==
    /\ [](numthreads = 0 => isrecording = 0)
    /\ [][(pc[Reporter] = "report163" /\ pc'[Reporter] # "report163"
             /\ numthreads = 0)
          => /\ pc'[Reporter] = "idle"
             /\ ret' = [thread |-> Reporter, op |-> "report", val |-> -1,
                        err |-> "NoData", discarded |-> 0]
             /\ \A o \in ONames : files'[o] = files[o]
             /\ UNCHANGED <<numthreads, walloffset, wallcutoff, isrecording,
                            samples, samplecounts, threadnames, threadids,
                            tidx, frozen>>
         ]_vars
    /\ [][(pc[Reporter] = "idle" /\ pc'[Reporter] = "report163"
             /\ numthreads = 0)
          => UNCHANGED <<numthreads, walloffset, wallcutoff, isrecording,
                         samples, samplecounts, threadnames, threadids,
                         tidx, files, frozen>>
         ]_vars
    /\ []((NoDataSeen /\ ~frozen /\ reports = 1
             /\ \E t \in Threads : signedin[t] = 0)
          => isrecording = 1)

\* tt_report found nothing to report; threads signed in afterwards and a
\* tt_stamp call stored a sample.
C12_Witness ==
    /\ NoDataSeen
    /\ \A o \in ONames : files[o] = NoFile
    /\ ret.op = "stamp" /\ ret.err = "ok"
    /\ Written # {}

\* ---------------------------------------------------------------- C13
\* The explicit stack: the pass over row sl from index k on, with the stack
\* of the indices of the Begins that are still open. The result tells for
\* each sample whether it is a Begin (-2), a discarded End (-1), or an End
\* matched with the Begin at the index given.
RECURSIVE StackPass(_, _, _)
StackPass(sl, k, stack) ==
    IF k >= samplecounts[sl] THEN <<>>
    ELSE IF samples[sl][k].phase = "B"
         THEN <<-2>> \o StackPass(sl, k + 1, Append(stack, k))
         ELSE LET open == {n \in 1..Len(stack) :
                              samples[sl][stack[n]].tag = samples[sl][k].tag}
              IN IF open = {}
                 THEN <<-1>> \o StackPass(sl, k + 1, stack)
                 ELSE LET top == CHOOSE n \in open : \A h \in open : h <= n
                      IN <<stack[top]>>
                         \o StackPass(sl, k + 1,
                                      SubSeq(stack, 1, top - 1)
                                      \o SubSeq(stack, top + 1, Len(stack)))

\* What the stack makes of row sl: the records written and the Ends dropped.
StackEvents(sl) ==
    LET m == StackPass(sl, 0, <<>>)
        kept == SelectSeq([k \in 1..Len(m) |-> k - 1],
                          LAMBDA k : m[k + 1] # -1)
    IN [n \in 1..Len(kept) |->
          LET k == kept[n]
              e == samples[sl][k]
          IN [tid |-> threadids[sl], ph |-> e.phase, name |-> e.tag,
              ts |-> e.wall_time,
              args |-> IF m[k + 1] = -2 THEN <<>>
                       ELSE <<e.num_preemptive_switch
                              - samples[sl][m[k + 1]].num_preemptive_switch,
                              e.num_voluntary_switch
                              - samples[sl][m[k + 1]].num_voluntary_switch>>]]

StackDiscards(sl) ==
    LET m == StackPass(sl, 0, <<>>)
    IN Cardinality({k \in 1..Len(m) : m[k] = -1})

RECURSIVE StackEventsFrom(_)
StackEventsFrom(sl) ==
    IF sl >= numthreads \/ sl \notin Slots THEN <<>>
    ELSE StackEvents(sl) \o StackEventsFrom(sl + 1)

RECURSIVE StackDiscardsFrom(_)
StackDiscardsFrom(sl) ==
    IF sl >= numthreads \/ sl \notin Slots THEN 0
    ELSE StackDiscards(sl) + StackDiscardsFrom(sl + 1)

\* C13: the records tt_report writes, the Begin each End is measured
\* against (told by the differences of the switch counters, which grow with
\* every stamp) and the number of discarded Ends are those of a pass that
\* keeps an explicit stack per thread: push on Begin, on End remove and match
\* the nearest stacked Begin with the same tag, discard the End if there is
\* none.
C13_ScanEqualsStack ==
    (Closed("a") /\ pc[Reporter] = "idle" /\ Len(files["stderr"]) > 0
       /\ files["stderr"][1].kind = "wrote") =>
        LET ev == EventRecords(files["a"])
            st == StackEventsFrom(0)
        IN /\ files["stderr"][1].discarded = StackDiscardsFrom(0)
           /\ Len(ev) = Len(st)
           /\ \A n \in 1..Len(st) :
                 /\ ev[n].tid = st[n].tid /\ ev[n].ph = st[n].ph
                 /\ ev[n].name = st[n].name /\ ev[n].ts = st[n].ts
                 /\ st[n].ph = "E" =>
                       <<ev[n].args[1], ev[n].args[2]>> = st[n].args

\* ---------------------------------------------------------------- C14
\* C14: numthreads never exceeds MAXTHREADS, also while tt_signin calls are
\* in progress, and the loops of tt_report never reach a slot index
\* >= MAXTHREADS.
C14_CounterWithinCapacity ==
    /\ numthreads <= MAXTHREADS
    /\ pc[Reporter] \in {"report177", "report187"}
          => loc[Reporter].t \in Slots

\* ---------------------------------------------------------------- C15
\* C15: a tt_report that opened its file is never cut short: the process is
\* not killed in the pass, whatever the buffers hold (also a Begin and its
\* End with the same wall_time), and the backward scan stays within the row
\* below the End it started from.
C15_ReportCompletes ==
    /\ \A t \in Threads : pc[t] # "crashed"
    /\ pc[Reporter] = "report187" =>
          /\ loc[Reporter].i >= 0
          /\ loc[Reporter].i < loc[Reporter].s

\* ---------------------------------------------------------------- C16
\* The records of a file, separators left out.
Records(f) == SelectSeq(f, LAMBDA tok : tok.kind \in {"event", "meta"})

\* One metadata record per slot below numthreads, in index order.
RECURSIVE MetaFrom(_)
MetaFrom(sl) ==
    IF sl >= numthreads \/ sl \notin Slots THEN <<>>
    ELSE <<MetaTok(threadids[sl], threadnames[sl])>> \o MetaFrom(sl + 1)

\* C16: the records tt_report writes are the stored samples slot by slot in
\* index order, each slot in recorded order, without the unmatched Ends,
\* followed by one metadata record per slot in index order; the value
\* returned is the number of sample records, and together with the number of
\* discarded samples it makes the number of stored samples.
C16_RecordSequence ==
    /\ \A o \in ONames :
          (Closed(o) /\ (pc[Reporter] = "idle" \/ loc[Reporter].oname # o)) =>
             LET rec == Records(files[o])
                 at == KeptAt(0, 0)
                 meta == MetaFrom(0)
             IN /\ Len(rec) = Len(at) + Len(meta)
                /\ \A n \in 1..Len(at) :
                      LET e == samples[at[n][1]][at[n][2]]
                      IN /\ rec[n].kind = "event"
                         /\ rec[n].cat = e.cat /\ rec[n].name = e.tag
                         /\ rec[n].ph = e.phase /\ rec[n].ts = e.wall_time
                         /\ rec[n].tts = e.cpu_time
                         /\ rec[n].tid = threadids[at[n][1]]
                /\ \A n \in 1..Len(meta) : rec[Len(at) + n] = meta[n]
                /\ Len(meta) = numthreads
    /\ (ret.op = "report" /\ ret.err = "ok") =>
          /\ ret.val = Len(KeptAt(0, 0))
          /\ ret.val + ret.discarded = Cardinality(Stored)
          /\ files["stderr"][Len(files["stderr"])]
                = WroteTok(ret.val, ret.discarded)

\* A report finished on two non-empty rows, wrote sample records and
\* discarded Ends.
C16_Witness ==
    /\ Closed("a") /\ pc[Reporter] = "idle"
    /\ ret.op = "report" /\ ret.err = "ok"
    /\ numthreads = MAXTHREADS
    /\ \A sl \in Slots : samplecounts[sl] > 0
    /\ ret.val > 0 /\ ret.discarded > 0
    /\ \E sl \in Slots : Unmatched(sl, 0) /\ samplecounts[sl] > 1

\* ---------------------------------------------------------------- C17
\* The samples thread t has stored.
StoredBy(t) == {p \in Written : author[p[1]][p[2]] = t}

\* C17: a tt_stamp call of a thread that holds a slot, when it succeeds,
\* returns the number of samples the thread had stored before the call (so
\* its successful calls return 0, 1, 2, ... whatever other threads do) and
\* adds one to the count of its slot; no step of the call changes another
\* slot's count or samples.
C17_ReturnsOwnIndex ==
    [][\A t \in Threads :
          signedin[t] \in Slots =>
             /\ (pc[t] = "stamp137" /\ pc'[t] = "idle") =>
                   /\ ret'.thread = t /\ ret'.err = "ok"
                   /\ ret'.val = Cardinality(StoredBy(t)) - 1
                   /\ samplecounts' = [samplecounts EXCEPT
                                          ![signedin[t]] = @ + 1]
             /\ (pc[t] \in {"stamp103", "stamp129", "stamp134", "stamp137"}
                   /\ pc'[t] # pc[t]) =>
                   \A sl \in Slots \ {signedin[t]} :
                      /\ samplecounts'[sl] = samplecounts[sl]
                      /\ samples'[sl] = samples[sl]
      ]_vars

\* ---------------------------------------------------------------- C18
\* C18: a tt_stamp call that returns NotRecording or BeforeCutoff changes no
\* sample, no sample count and not isrecording; a tt_signin call that finds
\* no slot left changes no name, id, sample count or sample and not
\* isrecording, and numthreads is MAXTHREADS when it returns and whenever no
\* tt_signin is running after one has failed.
C18_FailuresLeaveStateAlone ==
    /\ [][\A t \in Threads :
             /\ (pc[t] = "idle" /\ pc'[t] = "idle" /\ ret' # ret
                   /\ ret'.thread = t /\ ret'.op = "stamp")
                => /\ ret'.err = "NotRecording" /\ ret'.val = -1
                   /\ UNCHANGED <<numthreads, isrecording, samples,
                                  samplecounts, threadnames, threadids>>
             /\ (pc[t] = "idle" /\ pc'[t] = "stamp103")
                => UNCHANGED <<numthreads, isrecording, samples,
                               samplecounts, threadnames, threadids>>
             /\ (pc[t] = "stamp103" /\ pc'[t] = "idle"
                   /\ ret'.err = "BeforeCutoff")
                => /\ ret'.thread = t /\ ret'.val = -1
                   /\ UNCHANGED <<numthreads, isrecording, samples,
                                  samplecounts, threadnames, threadids>>
             /\ (pc[t] = "idle" /\ pc'[t] = "signin79"
                   /\ numthreads >= MAXTHREADS)
                => UNCHANGED <<isrecording, samples, samplecounts,
                               threadnames, threadids>>
             /\ (pc[t] = "signin79" /\ loc[t].slot >= MAXTHREADS)
                => \/ pc'[t] = "signin79"
                   \/ /\ pc'[t] = "idle"
                      /\ ret'.thread = t /\ ret'.err = "NoCapacity"
                      /\ ret'.val = -1
                      /\ numthreads' = MAXTHREADS
                      /\ UNCHANGED <<isrecording, samples, samplecounts,
                                     threadnames, threadids, tidx>>
         ]_vars
    /\ []((Failed # {} /\ \A t \in Threads : ~InSignin(t))
             => numthreads = MAXTHREADS)

\* A tt_signin call failed for want of a slot after the others had signed in
\* and stamped; recording is still on and no tt_signin is running.
C18_Witness ==
    /\ ret.op = "signin" /\ ret.err = "NoCapacity"
    /\ numthreads = MAXTHREADS
    /\ isrecording = 1
    /\ Written # {}
    /\ \A t \in Threads : ~InSignin(t)

\* ---------------------------------------------------------------- C19
\* The calls that run, or have run, the first-registration block.
Initialisers ==
    {t \in Threads : \/ pc[t] \in {"signin60", "signin67", "signin77"}
                     \/ (pc[t] \in {"signin79", "signin85"}
                           /\ loc[t].slot = 0)
                     \/ signedin[t] = 0}

\* Recording is or has been enabled.
EverEnabled == isrecording = 1 \/ frozen

\* C19: whatever the interleaving of the tt_signin calls, one call and only
\* one runs the first-registration block; walloffset and wallcutoff
\* (= walloffset + delay) are written before isrecording becomes 1 and never
\* afterwards; every sample stored is a clock reading minus that one offset,
\* taken at or after that one cutoff.
C19_InitialisedOnce ==
    /\ [](Cardinality(Initialisers) = (IF numthreads = 0 THEN 0 ELSE 1))
    /\ [](EverEnabled => wallcutoff = walloffset + Delay * SecondNs)
    /\ [][/\ EverEnabled => UNCHANGED <<walloffset, wallcutoff>>
          /\ (isrecording = 0 /\ isrecording' = 1) =>
                /\ ~frozen
                /\ wallcutoff = walloffset + Delay * SecondNs
                /\ UNCHANGED <<walloffset, wallcutoff>>
                /\ \E t \in Threads : /\ pc[t] = "signin77"
                                      /\ pc'[t] = "signin79"
                                      /\ loc[t].slot = 0
          /\ \A t \in Threads :
                (pc[t] = "stamp129" /\ pc'[t] = "stamp134") =>
                   /\ EverEnabled
                   /\ loc[t].wall_nsec >= wallcutoff
         ]_vars
    /\ [](\A p \in Written :
             /\ samples[p[1]][p[2]].wall_time + walloffset <= now * SecondNs
             /\ samples[p[1]][p[2]].wall_time + walloffset >= wallcutoff)

\* The tt_signin calls overlapped, the clock advanced after the offset was
\* taken, and samples taken at different times sit in more than one slot.
C19_Witness ==
    /\ numthreads >= MAXTHREADS
    /\ isrecording = 1
    /\ now > walloffset
    /\ \A sl \in Slots : author[sl][0] # 0
    /\ \E p, q \in Written :
          samples[p[1]][p[2]].wall_time < samples[q[1]][q[2]].wall_time

\* ---------------------------------------------------------------- C20
\* All fields of samples[sl][k] have been stored.
Complete(sl, k) ==
    /\ author[sl][k] # 0
    /\ samples[sl][k].phase \in Phases
    /\ samples[sl][k].tag \in Tags
    /\ samples[sl][k].cat \in Cats

\* Thread t is between lines 129 and 136 for samples[sl][k].
Writing(t, sl, k) ==
    pc[t] = "stamp134" /\ tidx[t] = sl /\ loc[t].sample = k

\* C20: as long as every slot has a single writer, every index below a
\* slot's sample count holds a sample whose fields are all stored and that
\* no tt_stamp call is still writing; the samples a concurrent tt_report
\* reads, the End it is at and the candidates of its backward scan, are
\* such samples.
C20_CountedSamplesComplete ==
    /\ [](rogue = 0 =>
             \A sl \in Slots : \A k \in Indices :
                k < samplecounts[sl] =>
                   /\ Complete(sl, k)
                   /\ \A t \in Threads : ~Writing(t, sl, k))
    /\ [](rogue = 0 /\ pc[Reporter] = "report187" =>
             /\ loc[Reporter].t \in Slots
             /\ loc[Reporter].s < samplecounts[loc[Reporter].t]
             /\ loc[Reporter].i >= 0 /\ loc[Reporter].i < loc[Reporter].s)
    /\ [][(rogue = 0 /\ pc[Reporter] = "report177"
             /\ pc'[Reporter] # "report177"
             /\ loc[Reporter].t \in Slots
             /\ loc[Reporter].s < samplecounts[loc[Reporter].t])
          => /\ Complete(loc[Reporter].t, loc[Reporter].s)
             /\ pc'[Reporter] # "crashed"
         ]_vars

\* tt_report is reading a counted sample of the slot in which a tt_stamp
\* call has stored part of the next sample.
C20_Witness ==
    /\ rogue = 0
    /\ pc[Reporter] \in {"report177", "report187"}
    /\ pc[RaceStamper] = "stamp134"
    /\ loc[Reporter].t = tidx[RaceStamper]
    /\ loc[Reporter].s < samplecounts[tidx[RaceStamper]]
    /\ loc[RaceStamper].sample = samplecounts[tidx[RaceStamper]]
    /\ ~Complete(tidx[RaceStamper], loc[RaceStamper].sample)

====
